---- MODULE Spec2Model ----
(***************************************************************************)
(* Model of package validate (v.go): the registry V, BadField, and the     *)
(* traversal V.Validate / V.ValidateAndTag / V.validateAndTagPrefix.       *)
(*                                                                         *)
(* Go strings are TLA+ strings; a struct tag value that the code splits is *)
(* kept as a sequence of tokens (maximal runs of ordinary characters, and  *)
(* each of "," "[" "]" as a token of its own), so that strings.Split can   *)
(* be computed; Str turns tokens back into the string.                     *)
(*                                                                         *)
(* A Go value is a record with a kind k: "int", "nil" (the nil interface), *)
(* "slice", "ptr" (address a, 0 = nil pointer), "struct" (type name t and  *)
(* fields f).  A field carries what reflect gives for it: t.Field(i).Name, *)
(* whether it is exported, t.Field(i).Tag and val.Field(i).                *)
(***************************************************************************)
EXTENDS Integers, Sequences, FiniteSets, TLC

\* ---- bounds of the model ----
MaxFields == 2      \* fields of a top-level record
MaxDepth == 2       \* nesting depth of struct-tagged record fields
MaxInt == 1         \* int field values are 0..MaxInt
\* Depth at which the Go runtime aborts a runaway recursion ("stack
\* overflow"); larger than the recursion depth of every acyclic input here.
MaxStack == MaxDepth + 3

\* ---- Go values ----
IntV(n) == [k |-> "int", n |-> n]
NilIface == [k |-> "nil"]
Slice == [k |-> "slice"]
Ptr(a) == [k |-> "ptr", a |-> a]
Struct(t, f) == [k |-> "struct", t |-> t, f |-> f]
Invalid == [k |-> "invalid"]
Fld(name, exported, tag, val) ==
  [Name |-> name, Exported |-> exported, Tag |-> tag, val |-> val]

\* struct tags: key -> tokens of the value
VTag(toks) == [key \in {"validate"} |-> toks]
VJTag(toks, j) == [key \in {"validate", "json"} |-> IF key = "json" THEN <<j>> ELSE toks]
JTag(j) == [key \in {"json"} |-> <<j>>]

\* The objects pointers of the inputs point to.
\*   1: n := &Node{}; n.Next = n      (type Node struct { Next *Node `validate:"struct"` })
\*   2: an int       3: X{A: 0}       4: a pointer to 3       5: &Node{Next: nil}
Heap ==
  <<Struct("Node", <<Fld("Next", TRUE, VTag(<<"struct">>), Ptr(1))>>),
    IntV(0),
    Struct("X", <<Fld("A", TRUE, VJTag(<<"nonzero">>, "h"), IntV(0))>>),
    Ptr(3),
    Struct("Node", <<Fld("Next", TRUE, VTag(<<"struct">>), Ptr(0))>>)>>

\* ---- strings ----
Digits == <<"0", "1", "2", "3", "4", "5", "6", "7", "8", "9">>

RECURSIVE Itoa(_)
Itoa(n) == IF n < 10 THEN Digits[n + 1] ELSE Itoa(n \div 10) \o Digits[(n % 10) + 1]

RECURSIVE Str(_)
Str(toks) == IF toks = <<>> THEN "" ELSE Head(toks) \o Str(Tail(toks))

Quote(str) == "\"" \o str \o "\""

RECURSIVE FmtV(_)
FmtFields(fs) ==
  LET RECURSIVE Join(_)
      Join(i) == IF i > Len(fs) THEN ""
                 ELSE (IF i > 1 THEN " " ELSE "") \o FmtV(fs[i].val) \o Join(i + 1)
  IN "{" \o Join(1) \o "}"
FmtV(x) ==
  CASE x.k = "int" -> Itoa(x.n)
    [] x.k = "nil" -> "<nil>"
    [] x.k = "slice" -> "[]"
    [] x.k = "struct" -> FmtFields(x.f)
    [] x.k = "ptr" -> IF x.a = 0 THEN "<nil>" ELSE "0xc00000000" \o Itoa(x.a)

\* strings.Split(tag, sep) on tokens
SplitFirst(toks, sep) ==
  IF \A i \in 1..Len(toks) : toks[i] # sep THEN <<toks>>
  ELSE LET i == CHOOSE i \in 1..Len(toks) : toks[i] = sep /\ \A j \in 1..(i - 1) : toks[j] # sep
       IN <<SubSeq(toks, 1, i - 1)>>

RECURSIVE Split(_, _)
Split(toks, sep) ==
  IF \A i \in 1..Len(toks) : toks[i] # sep THEN <<toks>>
  ELSE LET i == CHOOSE i \in 1..Len(toks) : toks[i] = sep /\ \A j \in 1..(i - 1) : toks[j] # sep
       IN <<SubSeq(toks, 1, i - 1)>> \o Split(SubSeq(toks, i + 1, Len(toks)), sep)

\* reflect.StructTag.Get
Get(tag, key) == IF key \in DOMAIN tag THEN tag[key] ELSE <<>>

\* ---- the validators of the tests ----
\* The outcome of vf(val): a panic (failed type assertion), an error or nil.
Panics == [panic |-> TRUE, failed |-> FALSE, msg |-> ""]
Fails(msg) == [panic |-> FALSE, failed |-> TRUE, msg |-> msg]
Passes == [panic |-> FALSE, failed |-> FALSE, msg |-> ""]

nonzero(i) ==
  IF i.k # "int" THEN Panics
  ELSE IF i.n = 0 THEN Fails("should be nonzero") ELSE Passes

odd(i) ==
  IF i.k # "int" THEN Panics
  ELSE IF i.n % 2 = 0 THEN Fails(Itoa(i.n) \o " is not odd") ELSE Passes

oddX(i) ==
  IF ~(i.k = "struct" /\ i.t = "X") THEN Panics
  ELSE LET A == i.f[1].val.n
       IN IF A % 2 = 0 THEN Fails(Itoa(A) \o " is not odd") ELSE Passes

wrong(i) == Fails("WRONG: " \o FmtV(i))

Apply(vf, val) ==
  CASE vf = "nonzero" -> nonzero(val)
    [] vf = "odd" -> odd(val)
    [] vf = "oddX" -> oddX(val)
    [] vf = "wrong" -> wrong(val)

\* ---- BadField ----
BadField(Field, Err) == [Field |-> Field, Err |-> Err]

Error(b) == "field " \o b.Field \o " is invalid: " \o b.Err

\* ---- reflect ----
\* reflect.ValueOf: the nil interface gives the zero Value
ValueOf(x) == IF x.k = "nil" THEN Invalid ELSE x

\* Value.Elem of a pointer: the zero Value for a nil pointer
Elem(val) == IF val.a = 0 THEN Invalid ELSE Heap[val.a]

\* Value.CanInterface of val.Field(i): false for an unexported field
CanInterfaceAlways(f) == TRUE

CanInterface(f) == f.Exported

\* ---- validateAndTagPrefix ----
\* What a call has done so far: errs is the Go slice of BadField; status is
\* "returned" while no panic is in flight.  trace, calls and lookups are
\* history: trace[k] is the position that appended errs[k], calls lists the
\* invocations vf(val), lookups the map reads v[vt].  A position is the
\* chain of <<field index, directive index>> pairs from the top-level record.
Nothing == [errs |-> <<>>, trace |-> <<>>, calls |-> <<>>, lookups |-> <<>>,
            status |-> "returned"]

Panic(acc, why) == [acc EXCEPT !.status = why]

\* errs = append(errs, errs2...), and the panic of the nested call if any
Merge(acc, r2) ==
  [errs |-> acc.errs \o r2.errs, trace |-> acc.trace \o r2.trace,
   calls |-> acc.calls \o r2.calls, lookups |-> acc.lookups \o r2.lookups,
   status |-> r2.status]

\* name := f.Name; if nameTag != "" { name = f.Tag.Get(nameTag) }
fieldNameOrDeclared(f, nameTag) ==
  IF nameTag # "" /\ nameTag \in DOMAIN f.Tag THEN Str(Get(f.Tag, nameTag)) ELSE f.Name

fieldName(f, nameTag) ==
  IF nameTag # "" THEN Str(Get(f.Tag, nameTag)) ELSE f.Name

\* if len(prefix) > 0 { name = prefix + "." + name }
withPrefixDropped(prefix, name) == name

withPrefix(prefix, name) ==
  IF Len(prefix) > 0 THEN prefix \o "." \o name ELSE name

\* vt == "struct"
isStructNever(vt) == FALSE

isStruct(vt) == vt = "struct"

\* fmt.Errorf("undefined validator: %q", vt)
undefinedOld(vt) == "has an undefined validator: " \o Quote(vt)

undefined(vt) == "undefined validator: " \o Quote(vt)

RECURSIVE validateAndTagPrefix(_, _, _, _, _, _)
RECURSIVE fields(_, _, _, _, _, _, _, _)
RECURSIVE directives(_, _, _, _, _, _, _, _, _, _)

\* for _, vt := range vts { ... }   (v.go:115-144), from index j on
directives(v, f, val, vts, j, nameTag, prefix, chain, i, acc) ==
  IF j > Len(vts) \/ acc.status # "returned" THEN acc
  ELSE
    LET vt == Str(vts[j])
        name == withPrefix(prefix, fieldName(f, nameTag))
        here == Append(chain, <<i, j>>)
        next(a) == directives(v, f, val, vts, j + 1, nameTag, prefix, chain, i, a)
    IN IF isStruct(vt)
       THEN next(Merge(acc, validateAndTagPrefix(v, val, nameTag, name, here, Len(here))))
       ELSE
         LET looked == [acc EXCEPT !.lookups = Append(@, [at |-> here, key |-> vt])]
         IN IF vt \notin DOMAIN v
            THEN next([looked EXCEPT
                         !.errs = Append(@, BadField(name, undefined(vt))),
                         !.trace = Append(@, [at |-> here, kind |-> "undefined"])])
            ELSE
              LET out == Apply(v[vt], val)
                  called == [looked EXCEPT
                               !.calls = Append(@, [at |-> here, key |-> vt, val |-> val])]
              IN IF out.panic THEN Panic(called, "panic: interface conversion")
                 ELSE IF out.failed
                 THEN next([called EXCEPT
                              !.errs = Append(@, BadField(name, out.msg)),
                              !.trace = Append(@, [at |-> here, kind |-> "failure"])])
                 ELSE next(called)

\* for i := 0; i < t.NumField(); i++ { ... }   (v.go:102-145), from field i on
fields(v, val, i, nameTag, prefix, chain, depth, acc) ==
  IF i > Len(val.f) \/ acc.status # "returned" THEN acc
  ELSE
    LET f == val.f[i]
        tag == Get(f.Tag, "validate")
        next(a) == fields(v, val, i + 1, nameTag, prefix, chain, depth, a)
    IN IF ~CanInterface(f) THEN next(acc)
       ELSE IF tag = <<>> THEN next(acc)
       ELSE next(directives(v, f, f.val, Split(tag, ","), 1, nameTag, prefix, chain, i, acc))

validateAndTagPrefix(v, s, nameTag, prefix, chain, depth) ==
  IF depth > MaxStack THEN Panic(Nothing, "fatal: stack overflow")
  ELSE
    LET val0 == ValueOf(s)
        val == IF val0.k = "ptr" THEN Elem(val0) ELSE val0
    IN IF val.k = "invalid" THEN Panic(Nothing, "panic: reflect.Value.Type on zero Value")
       ELSE IF val.k # "struct" THEN Nothing
       ELSE fields(v, val, 1, nameTag, prefix, chain, depth, Nothing)

ValidateAndTag(v, s, nameTag) == validateAndTagPrefix(v, s, nameTag, "", <<>>, 0)

Validate(v, s) == ValidateAndTag(v, s, "")

\* ---- the inputs ----
\* Directives of the tests (v.go:276, 254, 315) and a parameterized one
\* (v_test.go:110), as tokens.
T_nonzero == <<"nonzero">>
T_nonzero_odd == <<"nonzero", ",", "odd">>
T_oops_odd == <<"oops", ",", "odd">>
T_nonzero_oops == <<"nonzero", ",", "oops">>
T_between == <<"between", "[", "4", ",", "7", "]">>
T_struct_odd == <<"struct", ",", "odd">>
T_struct_oops == <<"struct", ",", "oops">>

\* Fields of builtin type
LeafFields ==
  {Fld("A", TRUE, tag, IntV(n)) :
     tag \in {VTag(T_nonzero_odd), VJTag(T_nonzero_odd, "h")}, n \in 0..MaxInt}
  \cup {Fld("A", TRUE, tag, IntV(0)) : tag \in {VTag(T_oops_odd), VJTag(T_oops_odd, "h")}}
  \cup {Fld("a", FALSE, VJTag(T_nonzero_oops, "u"), IntV(0)),
        Fld("D", TRUE, JTag("d"), IntV(0)),
        Fld("C", TRUE, VJTag(T_between, "c"), IntV(0))}

\* Fields tagged struct whose value is not a struct
NonStructFields ==
  {Fld("S", TRUE, VJTag(T_struct_oops, "s"), x) :
     x \in {IntV(0), Slice, NilIface, Ptr(0), Ptr(2)}}

\* Fields tagged struct that hold a pointer to a struct
PtrFields ==
  {Fld("P", TRUE, VJTag(T_struct_oops, "q"), Ptr(3)),
   Fld("N", TRUE, VTag(<<"struct">>), Ptr(1))}

\* type X struct { A int `validate:"nonzero" json:"h"` }
InnerFields == {Fld("A", TRUE, VJTag(T_nonzero, "h"), IntV(n)) : n \in 0..MaxInt}

\* Fields tagged struct that hold a struct, nested d deep:
\*   X X `validate:"struct,odd"`, then Y Y `validate:"struct,oops"` around it
RECURSIVE Nested(_)
Nested(d) ==
  IF d = 1
  THEN {Fld("X", TRUE, tag, Struct("X", <<l>>)) :
          l \in InnerFields, tag \in {VTag(T_struct_odd), VJTag(T_struct_odd, "o")}}
  ELSE {Fld("Y", TRUE, tag, Struct("Y", <<x>>)) :
          x \in Nested(d - 1), tag \in {VTag(T_struct_oops), VJTag(T_struct_oops, "p")}}

TopFields ==
  LeafFields \cup NonStructFields \cup PtrFields \cup UNION {Nested(d) : d \in 1..MaxDepth}

\* The other fields of a record: B<q> int `validate:"nonzero" json:"b<q>"`
Filler(q, n) == Fld("B" \o Itoa(q), TRUE, VJTag(T_nonzero, "b" \o Itoa(q)), IntV(n))

\* Records of up to MaxFields fields: one of TopFields at position p, and
\* int fields around it
RecordsAt(L, p) ==
  {[q \in 1..L |-> IF q = p THEN f ELSE Filler(q, ns[q])] :
     f \in TopFields, ns \in [(1..L) \ {p} -> 0..MaxInt]}

Records == UNION {UNION {RecordsAt(L, p) : p \in 1..L} : L \in 1..MaxFields}

Inputs ==
  {Struct("T", r) : r \in Records}
  \cup {IntV(n) : n \in 0..MaxInt} \cup {NilIface, Slice}
  \cup {Ptr(a) : a \in 0..Len(Heap)}

NameTags == {"", "json"}

\* vd[key] = func
Registrations ==
  {<<"nonzero", "nonzero">>, <<"odd", "odd">>, <<"odd", "oddX">>,
   <<"struct", "wrong">>, <<"between", "wrong">>}

\* ---- the state machine ----
\* v is the registry, s the value handed to Validate and nameTag the naming
\* key; errs is the returned slice and status how the call ended ("idle"
\* before it); trace, calls and lookups are the call's history.
VARIABLES v, s, nameTag, errs, trace, calls, lookups, status

vars == <<v, s, nameTag, errs, trace, calls, lookups, status>>

\* vd := make(V), and the caller's value
Init ==
  /\ v = [key \in {} |-> "wrong"]
  /\ s \in Inputs
  /\ nameTag = ""
  /\ errs = <<>>
  /\ trace = <<>>
  /\ calls = <<>>
  /\ lookups = <<>>
  /\ status = "idle"

\* vd[key] = fn, before the registry is used; overwrites an earlier fn
Register(key, fn) ==
  /\ status = "idle"
  /\ v' = [x \in DOMAIN v \cup {key} |-> IF x = key THEN fn ELSE v[x]]
  /\ UNCHANGED <<s, nameTag, errs, trace, calls, lookups, status>>

Returns(r, nt) ==
  /\ nameTag' = nt
  /\ errs' = r.errs
  /\ trace' = r.trace
  /\ calls' = r.calls
  /\ lookups' = r.lookups
  /\ status' = r.status
  /\ UNCHANGED <<v, s>>

\* errs := vd.Validate(s)
CallValidate ==
  /\ status = "idle"
  /\ Returns(Validate(v, s), "")

\* errs := vd.ValidateAndTag(s, nt)
CallValidateAndTag(nt) ==
  /\ status = "idle"
  /\ Returns(ValidateAndTag(v, s, nt), nt)

Next ==
  \/ \E r \in Registrations : Register(r[1], r[2])
  \/ CallValidate
  \/ \E nt \in NameTags : CallValidateAndTag(nt)

Spec == Init /\ [][Next]_vars

\* ---- vocabulary of the properties ----
Called == status # "idle"
Returned == status = "returned"

\* x is a record after at most one dereference
IsRecord(x) ==
  \/ x.k = "struct"
  \/ x.k = "ptr" /\ x.a # 0 /\ Heap[x.a].k = "struct"

Deref(x) == IF x.k = "ptr" THEN Heap[x.a] ELSE x

\* The pieces of a directive between its commas, by position: piece n lies
\* between the (n-1)th and the nth of the positions in cuts.
PiecesAt(toks, cuts) ==
  LET B == cuts \cup {0, Len(toks) + 1}
      Nth(n) == CHOOSE b \in B : Cardinality({x \in B : x < b}) = n - 1
  IN [n \in 1..(Cardinality(B) - 1) |-> SubSeq(toks, Nth(n) + 1, Nth(n + 1) - 1)]

Commas(toks) == {i \in 1..Len(toks) : toks[i] = ","}

\* commas outside brackets
TopCommas(toks) ==
  {i \in Commas(toks) :
     Cardinality({x \in 1..i : toks[x] = "["}) = Cardinality({x \in 1..i : toks[x] = "]"})}

\* the directive entries of field f, one per comma-separated piece
Entries(f) ==
  LET toks == Get(f.Tag, "validate")
      P == PiecesAt(toks, Commas(toks))
  IN [n \in DOMAIN P |-> Str(P[n])]

\* the validator names of field f when brackets hold parameters
BracketNames(f) ==
  LET toks == Get(f.Tag, "validate")
      P == PiecesAt(toks, TopCommas(toks))
      NameOf(piece) ==
        IF \E i \in 1..Len(piece) : piece[i] = "["
        THEN SubSeq(piece, 1, (CHOOSE i \in 1..Len(piece) :
                                 piece[i] = "[" /\ \A x \in 1..(i - 1) : piece[x] # "[") - 1)
        ELSE piece
  IN [n \in DOMAIN P |-> Str(NameOf(P[n]))]

\* a field the traversal looks at
Inspected(f) == f.Exported /\ Get(f.Tag, "validate") # <<>>

\* the field a position leads to, from value x
RECURSIVE FieldAt(_, _)
FieldAt(x, at) ==
  LET f == Deref(x).f[at[1][1]]
  IN IF Len(at) = 1 THEN f ELSE FieldAt(f.val, Tail(at))

Front(at) == SubSeq(at, 1, Len(at) - 1)
Last(at) == at[Len(at)]

\* positions in traversal order: lexicographic
RECURSIVE Before(_, _)
Before(a, b) ==
  IF a = <<>> THEN b # <<>>
  ELSE IF b = <<>> THEN FALSE
  ELSE IF a[1] = b[1] THEN Before(Tail(a), Tail(b))
  ELSE a[1][1] < b[1][1] \/ (a[1][1] = b[1][1] /\ a[1][2] < b[1][2])

InOrder(log) == \A k1, k2 \in 1..Len(log) : k1 < k2 => Before(log[k1].at, log[k2].at)

\* the top-level positions <<i, j>> of inspected fields
TopPositions ==
  IF ~IsRecord(s) THEN {}
  ELSE LET rec == Deref(s)
       IN UNION {{<<i, j>> : j \in DOMAIN Entries(rec.f[i])} :
                 i \in {x \in 1..Len(rec.f) : Inspected(rec.f[x])}}

TopField(pos) == Deref(s).f[pos[1]]
TopEntry(pos) == Entries(TopField(pos))[pos[2]]

\* the declared name of a field, or its value under the naming key
Resolved(f) ==
  IF nameTag = "" THEN f.Name
  ELSE IF nameTag \in DOMAIN f.Tag THEN Str(f.Tag[nameTag]) ELSE ""

\* the resolved names of the fields along a position, outermost first
Segments(at) == [m \in 1..Len(at) |-> Resolved(FieldAt(s, SubSeq(at, 1, m)))]

\* the segments joined with dots, empty leading segments left out
RECURSIVE JoinDots(_)
JoinDots(segs) ==
  IF Len(segs) = 1 THEN segs[1]
  ELSE IF segs[1] = "" THEN JoinDots(Tail(segs))
  ELSE segs[1] \o "." \o
       (LET RECURSIVE Rest(_)
            Rest(q) == IF Len(q) = 1 THEN q[1] ELSE q[1] \o "." \o Rest(Tail(q))
        IN Rest(Tail(segs)))

\* ---- the properties ----

\* C1: a call on a top-level input that is not a record after at most one
\* dereference returns, with an empty result and no validator invoked.
C1_NonRecordIsValid ==
  (Called /\ ~IsRecord(s)) => (Returned /\ errs = <<>> /\ calls = <<>>)

\* C2: the result has exactly one entry for each (field, directive entry)
\* pair whose registered validator reports a failure, carrying that failure,
\* and the entries are in field order, then directive order; an earlier
\* failure suppresses no later invocation or entry.
FailingPositions ==
  {pos \in TopPositions :
     /\ TopEntry(pos) # "struct"
     /\ TopEntry(pos) \in DOMAIN v
     /\ Apply(v[TopEntry(pos)], TopField(pos).val).failed}

C2_OneEntryPerFailureInOrder ==
  Returned =>
    /\ \A pos \in FailingPositions :
         /\ Cardinality({k \in 1..Len(trace) : trace[k].at = <<pos>>}) = 1
         /\ \E k \in 1..Len(trace) :
              /\ trace[k] = [at |-> <<pos>>, kind |-> "failure"]
              /\ errs[k].Err = Apply(v[TopEntry(pos)], TopField(pos).val).msg
         /\ \E c \in 1..Len(calls) :
              calls[c] = [at |-> <<pos>>, key |-> TopEntry(pos), val |-> TopField(pos).val]
    /\ \A k \in 1..Len(trace) :
         (Len(trace[k].at) = 1 /\ trace[k].kind = "failure")
           => trace[k].at[1] \in FailingPositions
    /\ Len(errs) = Len(trace)
    /\ InOrder(trace)
    /\ InOrder(calls)

C2_Witness ==
  /\ Returned
  /\ \E p1, p2, p3 \in FailingPositions :
       p1[1] = p2[1] /\ p1[2] < p2[2] /\ p2[1] < p3[1]

\* C3: a directive entry that is not "struct" and not a key of the registry
\* gets exactly one entry, tagged with the field's path, whose message is
\* undefined validator: "<name>", and the entries and fields after it are
\* still processed.
UndefinedPositions ==
  {pos \in TopPositions : TopEntry(pos) # "struct" /\ TopEntry(pos) \notin DOMAIN v}

C5_PathNamedByKey ==
  Returned =>
    \A k \in 1..Len(trace) :
      LET at == trace[k].at
          named == [m \in 1..Len(at) |->
                      LET f == FieldAt(s, SubSeq(at, 1, m))
                      IN IF nameTag = "" THEN f.Name
                         ELSE IF nameTag \in DOMAIN f.Tag THEN Str(f.Tag[nameTag]) ELSE ""]
      IN errs[k].Field = JoinDots(named)

\* naming mode, an undefined-validator entry and a failure entry, a field
\* with the key and one without it
C5_Witness ==
  /\ Returned
  /\ nameTag # ""
  /\ \E k1, k2 \in 1..Len(trace) :
       /\ trace[k1].kind = "undefined" /\ trace[k2].kind = "failure"
       /\ nameTag \notin DOMAIN FieldAt(s, trace[k1].at).Tag
       /\ nameTag \in DOMAIN FieldAt(s, trace[k2].at).Tag
       /\ errs[k1].Field = ""
       /\ errs[k2].Field # FieldAt(s, trace[k2].at).Name

\* C6: a directive is split only at commas outside brackets, and an entry
\* name[p1,...,pn] resolves to the registry key name.
C6_BracketAwareSplit ==
  (Returned /\ IsRecord(s)) =>
    \A i \in 1..Len(Deref(s).f) :
      Inspected(Deref(s).f[i]) =>
        LET names == BracketNames(Deref(s).f[i])
        IN /\ \A n \in 1..Len(lookups) :
                (Len(lookups[n].at) = 1 /\ lookups[n].at[1][1] = i)
                  => lookups[n].key = names[lookups[n].at[1][2]]
           /\ \A k \in 1..Len(trace) :
                (Len(trace[k].at) = 1 /\ trace[k].at[1][1] = i /\ trace[k].kind = "undefined")
                  => /\ trace[k].at[1][2] \in DOMAIN names
                     /\ names[trace[k].at[1][2]] \notin DOMAIN v

\* C7: only exported fields that carry a validate directive contribute
\* entries or have a validator invoked, at every level; a record with no
\* validate directive on any field yields an empty result.
C7_OnlyInspectedFieldsContribute ==
  Called =>
    /\ \A log \in {trace, calls, lookups} :
         \A n \in 1..Len(log) :
           \A m \in 1..Len(log[n].at) : Inspected(FieldAt(s, SubSeq(log[n].at, 1, m)))
    /\ (IsRecord(s) /\ \A i \in 1..Len(Deref(s).f) : Get(Deref(s).f[i].Tag, "validate") = <<>>)
         => (Returned /\ errs = <<>> /\ calls = <<>>)

\* an unexported field whose registered validator would fail and whose
\* other validator is undefined, next to a field that is validated
C7_Witness ==
  /\ Returned
  /\ IsRecord(s)
  /\ \E i \in 1..Len(Deref(s).f) :
       LET f == Deref(s).f[i]
       IN /\ ~f.Exported
          /\ \E j \in DOMAIN Entries(f) :
               Entries(f)[j] \in DOMAIN v /\ Apply(v[Entries(f)[j]], f.val).failed
          /\ \E j \in DOMAIN Entries(f) : Entries(f)[j] \notin DOMAIN v
  /\ calls # <<>>

\* C8: for the directive entry struct the registry is not consulted: no
\* lookup and no invocation under the key struct, no undefined-validator
\* entry for it, and no entry at the position of a struct directive entry.
C8_StructNeverLookedUp ==
  Called =>
    /\ \A n \in 1..Len(lookups) : lookups[n].key # "struct"
    /\ \A c \in 1..Len(calls) : calls[c].key # "struct"
    /\ \A k \in 1..Len(trace) :
         /\ Entries(FieldAt(s, trace[k].at))[Last(trace[k].at)[2]] # "struct"
         /\ errs[k].Err # "undefined validator: \"struct\""

\* struct is a key of the registry and a struct directive entry has
\* contributed the entries of its record
C8_Witness ==
  /\ Returned
  /\ "struct" \in DOMAIN v
  /\ \E k \in 1..Len(trace) :
       /\ Len(trace[k].at) >= 2
       /\ Entries(FieldAt(s, Front(trace[k].at)))[Last(Front(trace[k].at))[2]] = "struct"

\* C9: every call whose validators return terminates and returns, also on
\* records whose struct-tagged fields point to records of the same type.
C9_TerminatesAndReturns ==
  (Called /\ IsRecord(s)) => status \in {"returned", "panic: interface conversion"}

\* C10: a struct directive entry on a field whose value is not a record
\* after at most one dereference contributes no entry and raises no fault,
\* and the remaining directive entries of the field are still processed.
C10_StructOnNonRecord ==
  (Called /\ IsRecord(s)) =>
    \A pos \in TopPositions :
      (TopEntry(pos) = "struct" /\ ~IsRecord(TopField(pos).val)) =>
        /\ status # "panic: reflect.Value.Type on zero Value"
        /\ \A k \in 1..Len(trace) : trace[k].at[1] # pos
        /\ \A p2 \in TopPositions :
             (p2[1] = pos[1] /\ p2[2] > pos[2] /\ TopEntry(p2) # "struct")
               => \E n \in 1..Len(lookups) : lookups[n].at = <<p2>>

====
